---- MODULE Spec2Model ----
(***************************************************************************)
(* A model of mydb-client's Document (src/document.js): the readyState     *)
(* lifecycle, load/destroy and their coordination with the manager and the *)
(* transport, snapshot ($payload) and operation ($op) application, and the *)
(* ready/get callbacks.                                                    *)
(*                                                                         *)
(* Every handler of the source is a function from a record `d` of the      *)
(* whole state to the state after the handler has returned (or thrown);    *)
(* an action applies one handler and commits the record to the variables.  *)
(***************************************************************************)
EXTENDS Integers, Sequences, FiniteSets, TLC

\* ------------------------------------------------------------------ bounds

\* calls of load, ready, get and destroy over a run that return normally
MaxCalls == 3

\* elements of an array field, and of the value of a $pushAll or $pullAll
MaxElems == 2

\* operators of one modifier, and so entries of one operation log
MaxLog == 2

\* rounds of the loop of lines 222-224 the model follows
MaxSpin == MaxElems + 1

\* ------------------------------------------------------------- value sets

Undef == "undefined"
Null == "null"

\* the value of the property `$readyState` of a document: the prototype
\* method itself (line 86), never a state string
ReadyStateProperty == "[Function]"

States == {"unloaded", "loading", "loaded", "unloading"}

\* subscription ids: the one the transport answers this document's fetches
\* with (res.text), and all those the manager may emit 'unsubscribe' for
\* (it is shared with other documents)
OwnSIDs == {"s1"}
SIDs == OwnSIDs \cup {"s2"}

\* field names of the remote document; "xhr" is an ordinary field name that
\* destroy() happens to read (line 372)
Keys == {"a", "xhr"}
\* field values, as the strings the wire carries
Vals == {"1", "2"}

\* urls are sequences of tokens; "/" and "?" are always tokens of their own;
\* the empty sequence stands for a url never set
NoUrl == <<>>
URLs == {<<"/", "doc">>}

\* Date.now(), as the digits put in the query string
Times == {"1001"}

\* urls with and without a query string, relative and absolute, and two
\* readings of the clock
QueryURLs == {<<"/", "doc">>, <<"/", "doc", "?", "q=1">>,
              <<"http://h/doc">>, <<"http://h/doc", "?", "q=1">>}
Clock == {"1001", "1002"}

\* $xhr before any load, after destroy cleared it, and while it holds request n
NoXhr == [kind |-> "undefined", id |-> 0]
NullXhr == [kind |-> "null", id |-> 0]
Request(n) == [kind |-> "request", id |-> n]

\* manager.socket
Socket == [secure |-> FALSE, host |-> "host", port |-> "3000"]

\* snapshots: objects with any subset of Keys as own keys
PayloadObjs == UNION {[S -> Vals] : S \in SUBSET Keys}

\* raw operations handed to $op, as mongo-query understands them
Updates == [key : Keys, op : {"$set"}, value : Vals]
             \cup [key : Keys, op : {"$unset"}, value : Keys]

\* arrays of field values
Arrays == UNION {[1..n -> Vals] : n \in 0..MaxElems}

\* an array value as the text the wire carries: ["1","2"] is "[1,2]"
RECURSIVE Join(_)
Join(a) ==
  IF a = <<>> THEN ""
  ELSE IF Len(a) = 1 THEN a[1]
  ELSE a[1] \o "," \o Join(Tail(a))

ToJSON(a) == "[" \o Join(a) \o "]"

\* the values of $pushAll and $pullAll: "1", "2", "1", ... up to each length
AllValues == {[i \in 1..n |-> IF i % 2 = 1 THEN "1" ELSE "2"] : n \in 0..MaxElems}

\* the array operators, on the field "a"; the operand of $pop is 1, the end
\* of the array
ElemUpdates == [key : {"a"}, op : {"$push"}, value : Vals]
                 \cup [key : {"a"}, op : {"$pop"}, value : {"1"}]
AllUpdates == [key : {"a"}, op : {"$pushAll", "$pullAll"}, value : AllValues]

\* the scalar operators of a modifier with several operators
ScalarUpdates == [key : Keys, op : {"$set"}, value : {"1"}]
                   \cup {[key |-> "a", op |-> "$unset", value |-> "xhr"],
                         [key |-> "xhr", op |-> "$unset", value |-> "a"]}

\* snapshots whose field "a" is an array
ArraySnapshots == [{"a"} -> {ToJSON(arr) : arr \in Arrays}]

\* the modifiers handed to $op: up to MaxLog operators, in order
Modifiers ==
  UNION {[1..n -> ScalarUpdates \cup ElemUpdates \cup AllUpdates] : n \in 1..MaxLog}

\* the second argument of on/once/off and of listeners/hasListeners: a
\* function, nothing, or an operation kind as the sequence of its tokens, "$"
\* always a token of its own
FnArg == [type |-> "function", text |-> <<>>]
NoArg == [type |-> "undefined", text |-> <<>>]
StrArg(t) == [type |-> "string", text |-> t]
Spellings == {<<"set">>, <<"$", "set">>, <<"$", "$", "set">>}
OpArgs == {StrArg(t) : t \in Spellings}

\* the keys listeners are registered on: a field, and the lifecycle events
StateKeys == {"$state", "$state:loading"}
OnInputs == [key : {"a"}, arg : OpArgs \cup {FnArg}]
              \cup [key : StateKeys, arg : {FnArg}]
OnceInputs == [key : {"a"}, arg : {StrArg(<<"set">>), StrArg(<<"$", "set">>)}]
OffInputs == [key : {"a"}, arg : OpArgs \cup {FnArg}]

\* what a destroy(fn) callback does: nothing given, a callback that only
\* looks at the document, a callback that loads the document again
DestroyFns == {"none", "plain", "reload"}
ReloadUrl == <<"/", "doc">>

\* ------------------------------------------------------------------ state

VARIABLES
  readyState,    \* $_readyState
  sid,           \* $_sid
  url,           \* $_url
  xhr,           \* $xhr: the pending request, null, or never set
  fields,        \* the document's own data properties
  listeners,     \* the document's Emitter callbacks, in registration order
  timers,        \* callbacks handed to setTimeout(fn, 0) and not yet run
  inNode,        \* 'undefined' != typeof process
  inflight,      \* transport: requests whose response has not been delivered
  subscribed,    \* manager: the sids it routes to this document
  unsubscribing, \* manager: the sids whose unsubscription it has been asked for
  mgrListeners,  \* manager: 'unsubscribe' listeners registered by destroy()
  nreq,          \* requests issued so far
  nreg,          \* document listeners registered so far
  ndestroy,      \* manager listeners registered so far
  ncalls,        \* calls of the public methods that returned normally so far
  called,        \* the document callbacks invoked so far
  cbCalled,      \* the destroy callbacks invoked so far
  cancelled,     \* pending requests during whose fetch destroy() was called
  emitted,       \* this step: the document's emit() calls, in order
  invoked,       \* this step: callbacks invoked, in order
  mgrCalls,      \* this step: calls made on the manager
  thrown,        \* this step: the exception that left the handler, or "hang"
  last           \* this step: the operation and its arguments

vars == <<readyState, sid, url, xhr, fields, listeners, timers, inNode, inflight,
          subscribed, unsubscribing, mgrListeners, nreq, nreg, ndestroy, ncalls, called, cbCalled,
          cancelled, emitted, invoked, mgrCalls, thrown, last>>

\* the state as one record, the step's outputs empty
Doc ==
  [readyState |-> readyState, sid |-> sid, url |-> url, xhr |-> xhr,
   fields |-> fields, listeners |-> listeners, timers |-> timers,
   inNode |-> inNode, inflight |-> inflight, subscribed |-> subscribed,
   unsubscribing |-> unsubscribing, mgrListeners |-> mgrListeners, nreq |-> nreq, nreg |-> nreg,
   ndestroy |-> ndestroy, ncalls |-> ncalls, called |-> called, cbCalled |-> cbCalled,
   cancelled |-> cancelled,
   emitted |-> <<>>, invoked |-> <<>>, mgrCalls |-> <<>>, thrown |-> "none"]

Commit(d, l) ==
  /\ readyState' = d.readyState
  /\ sid' = d.sid
  /\ url' = d.url
  /\ xhr' = d.xhr
  /\ fields' = d.fields
  /\ listeners' = d.listeners
  /\ timers' = d.timers
  /\ inNode' = d.inNode
  /\ inflight' = d.inflight
  /\ subscribed' = d.subscribed
  /\ unsubscribing' = d.unsubscribing
  /\ mgrListeners' = d.mgrListeners
  /\ nreq' = d.nreq
  /\ nreg' = d.nreg
  /\ ndestroy' = d.ndestroy
  /\ ncalls' = d.ncalls
  /\ called' = d.called
  /\ cbCalled' = d.cbCalled
  /\ cancelled' = d.cancelled
  /\ emitted' = d.emitted
  /\ invoked' = d.invoked
  /\ mgrCalls' = d.mgrCalls
  /\ thrown' = d.thrown
  /\ last' = l

WithinBounds(d) == d.ncalls <= MaxCalls

\* a public method returns normally
Returned(d) == [d EXCEPT !.ncalls = @ + 1]

Init ==
  /\ readyState = "unloaded"
  /\ sid = Undef
  /\ url = NoUrl
  /\ xhr = NoXhr
  /\ fields = [k \in Keys |-> Undef]
  /\ listeners = <<>>
  /\ timers = {}
  /\ inNode = TRUE
  /\ inflight = {}
  /\ subscribed = {}
  /\ unsubscribing = {}
  /\ mgrListeners = <<>>
  /\ nreq = 0
  /\ nreg = 0
  /\ ndestroy = 0
  /\ ncalls = 0
  /\ called = {}
  /\ cbCalled = {}
  /\ cancelled = {}
  /\ emitted = <<>>
  /\ invoked = <<>>
  /\ mgrCalls = <<>>
  /\ thrown = "none"
  /\ last = [op |-> "new"]

\* ------------------------------------------------------------ the emitter

\* dot.get(obj, key), on the flat keys of the model
DocGet(d, key) == d.fields[key]

\* what the emitter's call of listener l with argument arg does: a callback
\* given to ready()/load() records its call; the wrapper get(key, fn) installs
\* (lines 318-320) reads the key and hands the value to fn
Invoke(d, l, arg) ==
  [fn |-> l.fn, kind |-> l.kind, key |-> l.key, saw |-> d.readyState,
   got |-> IF l.kind = "get" THEN DocGet(d, l.key) ELSE arg]

\* Emitter.prototype.emit: calls the listeners of ev in registration order;
\* a listener registered with once() is removed as it is called
Emit(d, ev, arg) ==
  LET hit == SelectSeq(d.listeners, LAMBDA l : l.ev = ev)
  IN [d EXCEPT
        !.emitted = Append(@, [ev |-> ev, arg |-> arg]),
        !.listeners = SelectSeq(@, LAMBDA l : ~(l.ev = ev /\ l.once)),
        !.invoked = @ \o [i \in 1..Len(hit) |-> Invoke(d, hit[i], arg)],
        !.called = @ \cup {hit[i].fn : i \in 1..Len(hit)}]

\* a listener record for a new callback: every registration is a new function
Register(d, ev, once, kind, key) ==
  [d EXCEPT
     !.nreg = @ + 1,
     !.listeners = Append(@, [ev |-> ev, once |-> once, fn |-> d.nreg + 1,
                              kind |-> kind, key |-> key,
                              loaded |-> d.readyState = "loaded"])]

\* Document.prototype.on(key, fn)
DocOn(d, ev, kind, key) == Register(d, ev, FALSE, kind, key)

\* once() that registers like on(): the listener stays after it is called
DocOnceKept(d, ev, kind, key) == Register(d, ev, FALSE, kind, key)

\* Document.prototype.once(key, fn)
DocOnce(d, ev, kind, key) == Register(d, ev, TRUE, kind, key)

\* the text of a token sequence
RECURSIVE Concat(_)
Concat(t) == IF t = <<>> THEN "" ELSE Head(t) \o Concat(Tail(t))

\* op.replace(/^\$/, '') that replaces nothing
StripNothing(op) == op

\* op.replace(/^\$/, ''): one "$" at the start of op is dropped
StripDollar(op) == IF op # <<>> /\ "$" = Head(op) THEN Tail(op) ELSE op

\* key + '$' + op.replace(/^\$/, '')
Namespaced(key, op) == key \o "$" \o Concat(StripDollar(op))

\* the event on/once/off address: `'string' == type(op)` of lines 108, 125, 143
EventOf(key, arg) ==
  IF "string" = arg.type THEN Namespaced(key, arg.text) ELSE key

\* the event listeners/hasListeners address: `if (op)` of lines 159, 172
EventAsked(key, arg) ==
  IF arg.type = "string" /\ arg.text # <<>> THEN Namespaced(key, arg.text) ELSE key

\* what a callback given to on/once is registered as: the arguments of the
\* call, as written
AsWritten(arg) == "on:" \o Concat(arg.text)

\* on(key, op, fn) and on(key, fn)
OnFn(d, key, arg) == Returned(DocOn(d, EventOf(key, arg), AsWritten(arg), key))

\* once(key, op, fn) and once(key, fn)
OnceFn(d, key, arg) == Returned(DocOnce(d, EventOf(key, arg), AsWritten(arg), key))

\* Emitter.prototype.off(ev, fn): the first listener of ev that is fn goes
EmitterOff(d, ev, fn) ==
  LET hit == {i \in 1..Len(d.listeners) : d.listeners[i].ev = ev /\ d.listeners[i].fn = fn}
  IN IF hit = {} THEN d
     ELSE LET first == CHOOSE i \in hit : \A j \in hit : i <= j
          IN [d EXCEPT !.listeners =
                [i \in 1..(Len(@) - 1) |-> IF i < first THEN @[i] ELSE @[i + 1]]]

\* off(key, op, fn) and off(key, fn)
OffFn(d, key, arg, fn) == EmitterOff(d, EventOf(key, arg), fn)

\* listeners(key, op) and listeners(key): the callbacks, in order
ListenersFn(d, key, arg) ==
  LET hit == SelectSeq(d.listeners, LAMBDA l : l.ev = EventAsked(key, arg))
  IN [i \in 1..Len(hit) |-> hit[i].fn]

\* hasListeners(key, op) and hasListeners(key)
HasListenersFn(d, key, arg) ==
  \E i \in 1..Len(d.listeners) : d.listeners[i].ev = EventAsked(key, arg)

\* ---------------------------------------------------------- the lifecycle

\* $readyState(s) that emits before it overwrites
ReadyStateSetLate(d, s) ==
  LET d1 == Emit(d, "$state", s)
      d2 == Emit(d1, "$state:" \o s, Undef)
  IN [d2 EXCEPT !.readyState = s]

\* $readyState(s), s given: overwrite, then emit '$state' and '$state:<s>'
ReadyStateSet(d, s) ==
  LET d1 == [d EXCEPT !.readyState = s]
      d2 == Emit(d1, "$state", s)
  IN Emit(d2, "$state:" \o s, Undef)

\* ready(fn): line 242 compares the string with the property $readyState
ReadyFn(d, kind, key) ==
  Returned(IF "loaded" = ReadyStateProperty
           THEN [d EXCEPT !.timers = @ \cup {[kind |-> kind, key |-> key]}]
           ELSE DocOnce(d, "$state:loaded", kind, key))

\* get(key, fn): the read is wrapped with ready()
GetFn(d, key) == ReadyFn(d, "get", key)

\* $payload that announces 'loaded' before it has copied the fields
PayloadFnStateFirst(d, obj) ==
  LET d1 == ReadyStateSet(d, "loaded")
  IN [d1 EXCEPT
        !.fields = [k \in Keys |-> IF k \in DOMAIN obj THEN obj[k] ELSE @[k]]]

\* $payload(obj): copy obj's own keys, then $readyState('loaded')
PayloadFn(d, obj) ==
  LET d1 == [d EXCEPT
               !.fields = [k \in Keys |-> IF k \in DOMAIN obj THEN obj[k] ELSE @[k]]]
  IN ReadyStateSet(d1, "loaded")

\* ------------------------------------------------------------- operations

IsArray(v) == \E a \in Arrays : ToJSON(a) = v
Parse(v) == CHOOSE a \in Arrays : ToJSON(a) = v

\* the array a modifier works on: a field never set starts as the empty array
ArrayOf(v) == IF v = Undef THEN <<>> ELSE Parse(v)
Elems(a) == {a[i] : i \in 1..Len(a)}

\* whether the server can have sent operator u for a document in state d:
\* array operators go to array fields (or fields never set), $pop to a
\* non-empty one, and arrays stay within MaxElems
Applies(d, u) ==
  CASE u.op \in {"$set", "$unset"} -> TRUE
    [] u.op = "$push" ->
         /\ d.fields[u.key] = Undef \/ IsArray(d.fields[u.key])
         /\ Len(ArrayOf(d.fields[u.key])) < MaxElems
    [] u.op = "$pushAll" ->
         /\ d.fields[u.key] = Undef \/ IsArray(d.fields[u.key])
         /\ Len(ArrayOf(d.fields[u.key])) + Len(u.value) <= MaxElems
    [] u.op = "$pullAll" ->
         d.fields[u.key] = Undef \/ IsArray(d.fields[u.key])
    [] u.op = "$pop" ->
         IsArray(d.fields[u.key]) /\ Parse(d.fields[u.key]) # <<>>

\* what operator u leaves in its field
Modified(d, u) ==
  LET arr == ArrayOf(d.fields[u.key])
  IN CASE u.op = "$set" -> u.value
       [] u.op = "$unset" -> Undef
       [] u.op = "$push" -> ToJSON(Append(arr, u.value))
       [] u.op = "$pushAll" -> ToJSON(arr \o u.value)
       [] u.op = "$pullAll" -> ToJSON(SelectSeq(arr, LAMBDA x : x \notin Elems(u.value)))
       [] u.op = "$pop" -> ToJSON(SubSeq(arr, 1, Len(arr) - 1))

\* the log entry of operator u: a $pop logs the element it removed
Logged(d, u) ==
  [key |-> u.key, op |-> u.op,
   value |-> IF u.op = "$pop"
             THEN LET arr == ArrayOf(d.fields[u.key]) IN arr[Len(arr)]
             ELSE u.value]

\* mongo-query's query(doc, filter, modifier): applies the operators of the
\* modifier to the document in place, in order, and returns the log of what
\* it did; `ok` tells whether every operator applied
RECURSIVE Query(_, _)
Query(d, mod) ==
  IF mod = <<>> THEN [doc |-> d, log |-> <<>>, ok |-> TRUE]
  ELSE LET u == Head(mod)
       IN IF ~Applies(d, u) THEN [doc |-> d, log |-> <<>>, ok |-> FALSE]
          ELSE LET q == Query([d EXCEPT !.fields[u.key] = Modified(d, u)], Tail(mod))
               IN [doc |-> q.doc, log |-> <<Logged(d, u)>> \o q.log, ok |-> q.ok]

\* /All/.test(type) and type.replace(/All/, ''), on the operation kinds
IsAll(type) == type \in {"$pushAll", "$pullAll"}
Singular(type) ==
  CASE type = "$pushAll" -> "$push"
    [] type = "$pullAll" -> "$pull"
    [] OTHER -> type

\* the loop of lines 222-224, `for (var ii = 0; ii < val.length; i++)`, from
\* its n-th test of the condition on: the body emits val[ii] and the step
\* advances i, the index of the log, so neither ii nor val ever changes and
\* a test that succeeds once succeeds forever. The model follows MaxSpin
\* rounds, more than any value has elements, and then reports that the
\* handler never returns ("hang").
RECURSIVE AllLoop(_, _, _, _, _)
AllLoop(d, obj, i, ii, n) ==
  IF ~(ii <= Len(obj.value)) THEN [doc |-> d, i |-> i]
  ELSE IF n = MaxSpin THEN [doc |-> [d EXCEPT !.thrown = "hang"], i |-> i]
  ELSE AllLoop(Emit(d, obj.key \o Singular(obj.op), obj.value[ii]),
               obj, i + 1, ii, n + 1)

\* the loop body without line 211: a $pop is announced as a $pop only
OpEntryPopOnly(d, log, i) ==
  LET obj == log[i]
      d2 == IF obj.op = "$unset"
            THEN LET e == Emit(d, obj.key \o "$unset", Null)
                 IN Emit(e, obj.value \o "$set", DocGet(e, obj.value))
            ELSE d
      r == IF IsAll(obj.op)
           THEN AllLoop(d2, obj, i, 1, 0)
           ELSE [doc |-> Emit(d2, obj.key \o obj.op, obj.value), i |-> i]
  IN IF r.doc.thrown # "none" THEN r
     ELSE [doc |-> Emit(r.doc, obj.key, DocGet(r.doc, obj.key)), i |-> r.i]

\* the loop body with lines 216 and 217 in the other order: the destination
\* is announced before the key is
OpEntrySetFirst(d, log, i) ==
  LET obj == log[i]
      d1 == IF obj.op = "$pop" THEN Emit(d, obj.key \o "$pull", obj.value) ELSE d
      d2 == IF obj.op = "$unset"
            THEN LET e == Emit(d1, obj.value \o "$set", DocGet(d1, obj.value))
                 IN Emit(e, obj.key \o "$unset", Null)
            ELSE d1
      r == IF IsAll(obj.op)
           THEN AllLoop(d2, obj, i, 1, 0)
           ELSE [doc |-> Emit(d2, obj.key \o obj.op, obj.value), i |-> i]
  IN IF r.doc.thrown # "none" THEN r
     ELSE [doc |-> Emit(r.doc, obj.key, DocGet(r.doc, obj.key)), i |-> r.i]

\* the body of $op's loop for log[i]: the document after it and the value it
\* leaves in i
OpEntry(d, log, i) ==
  LET obj == log[i]
      d1 == IF obj.op = "$pop" THEN Emit(d, obj.key \o "$pull", obj.value) ELSE d
      d2 == IF obj.op = "$unset"
            THEN LET e == Emit(d1, obj.key \o "$unset", Null)
                 IN Emit(e, obj.value \o "$set", DocGet(e, obj.value))
            ELSE d1
      r == IF IsAll(obj.op)
           THEN AllLoop(d2, obj, i, 1, 0)
           ELSE [doc |-> Emit(d2, obj.key \o obj.op, obj.value), i |-> i]
  IN IF r.doc.thrown # "none" THEN r
     ELSE [doc |-> Emit(r.doc, obj.key, DocGet(r.doc, obj.key)), i |-> r.i]

\* `for (var i = 0; i < log.length; i++)`, from index i on
RECURSIVE OpLoop(_, _, _)
OpLoop(d, log, i) ==
  IF ~(i <= Len(log)) THEN d
  ELSE LET r == OpEntry(d, log, i)
       IN IF r.doc.thrown # "none" THEN r.doc ELSE OpLoop(r.doc, log, r.i + 1)

\* $op(data), data[1] the modifier
OpFn(d, mod) ==
  LET q == Query(d, mod)
  IN OpLoop(q.doc, q.log, 1)

\* ------------------------------------------------------------ the manager

\* manager.subscribe(sid, doc): the manager routes sid to the document
MgrSubscribe(d, s) ==
  [d EXCEPT !.subscribed = @ \cup {s},
            !.mgrCalls = Append(@, [call |-> "subscribe", sid |-> s])]

\* manager.unsubscribe(sid, doc): the manager asks the server, whose
\* confirmation it later emits as 'unsubscribe'
MgrUnsubscribe(d, s) ==
  [d EXCEPT !.unsubscribing = @ \cup {s},
            !.mgrCalls = Append(@, [call |-> "unsubscribe", sid |-> s])]

\* --------------------------------------------------------- load, destroy

\* lines 270-274: in node, a path-absolute url is prefixed with the socket's
ResolveUrl(d, u) ==
  IF d.inNode /\ "/" = Head(u)
  THEN <<IF Socket.secure THEN "https" ELSE "http", "://", Socket.host, ":",
         Socket.port>> \o u
  ELSE u

\* ~url.indexOf('?')
HasQuery(u) == \E i \in 1..Len(u) : u[i] = "?"

\* line 278: the url handed to request.get
FetchUrl(u, now) ==
  u \o (IF HasQuery(u) THEN <<>> ELSE <<"?">>) \o <<"my=1&t=", now>>

\* load() that marks the document as loading before it checks the state
LoadFnMarksFirst(d, u, now, withFn) ==
  LET d1 == ReadyStateSet(d, "loading")
  IN IF "unloaded" # d.readyState THEN [d1 EXCEPT !.thrown = "Error"]
     ELSE LET full == ResolveUrl(d1, u)
              rid == d1.nreq + 1
              d2 == [d1 EXCEPT
                       !.url = full,
                       !.nreq = rid,
                       !.xhr = Request(rid),
                       !.inflight = @ \cup {[id |-> rid, url |-> FetchUrl(full, now)]}]
          IN IF withFn THEN ReadyFn(d2, "user", "") ELSE Returned(d2)

\* load(url, fn)
LoadFn(d, u, now, withFn) ==
  IF "unloaded" # d.readyState
  THEN [d EXCEPT !.thrown = "Error"]
  ELSE LET d1 == ReadyStateSet(d, "loading")
           full == ResolveUrl(d1, u)
           rid == d1.nreq + 1
           d2 == [d1 EXCEPT
                    !.url = full,
                    !.nreq = rid,
                    !.xhr = Request(rid),
                    !.inflight = @ \cup {[id |-> rid, url |-> FetchUrl(full, now)]}]
       IN IF withFn THEN ReadyFn(d2, "user", "") ELSE Returned(d2)

\* the response callback without the test of res.ok (line 285)
ResponseFnAnyStatus(d, r, ok, text) ==
  LET d1 == [d EXCEPT !.inflight = @ \ {r}, !.cancelled = @ \ {r.id}]
  IN IF Request(r.id) = d1.xhr
     THEN MgrSubscribe([d1 EXCEPT !.sid = text], text)
     ELSE d1

\* the callback load() hands to request.get, called with the response
ResponseFn(d, r, ok, text) ==
  LET d1 == [d EXCEPT !.inflight = @ \ {r}, !.cancelled = @ \ {r.id}]
  IN IF Request(r.id) = d1.xhr
     THEN IF ok THEN MgrSubscribe([d1 EXCEPT !.sid = text], text) ELSE d1
     ELSE d1

\* destroy(fn); fn is what the callback does (DestroyFns)
DestroyFn(d, fn) ==
  CASE d.readyState = "loading" ->
         LET d1 == [d EXCEPT !.cancelled =
                       @ \cup {r.id : r \in {q \in d.inflight : Request(q.id) = d.xhr}}]
         IN IF d1.fields["xhr"] = Undef
            \* line 372 reads `this.xhr`, not `this.$xhr`: with no field named
            \* xhr, reading `.abort` of undefined throws
            THEN [d1 EXCEPT !.thrown = "TypeError"]
            \* a field named xhr holds a string, which has no `abort`
            ELSE Returned([d1 EXCEPT !.xhr = NullXhr])
    [] d.readyState \in {"unloading", "unloaded"} ->
         [d EXCEPT !.thrown = "Error"]
    [] OTHER ->
         LET s == d.sid
             d1 == ReadyStateSet(d, "unloading")
             d2 == [d1 EXCEPT
                      !.ndestroy = @ + 1,
                      !.mgrListeners =
                         Append(@, [id |-> d.ndestroy + 1, sid |-> s, fn |-> fn])]
         IN Returned(MgrUnsubscribe(d2, d2.sid))

\* `fn && fn()` of line 394
CallDestroyFn(d, l, now) ==
  IF l.fn = "none" THEN d
  ELSE LET d1 == [d EXCEPT
                    !.cbCalled = @ \cup {l.id},
                    !.invoked = Append(@, [fn |-> l.id, kind |-> "destroy",
                                           key |-> l.fn, saw |-> d.readyState,
                                           got |-> Undef])]
       IN IF l.fn = "reload" THEN LoadFn(d1, ReloadUrl, now, FALSE) ELSE d1

\* the listener destroy() registers on the manager, called with sid s
UnsubscribeListener(d, l, s, now) ==
  IF s = l.sid
  THEN LET d1 == CallDestroyFn(d, l, now)
       IN IF d1.thrown # "none" THEN d1
          ELSE LET d2 == ReadyStateSet(d1, "unloaded")
               IN [d2 EXCEPT !.mgrListeners = SelectSeq(@, LAMBDA m : m.id # l.id)]
  ELSE d

\* the manager's emit('unsubscribe', s): the listeners registered when the
\* emit starts, in order, until one throws
RECURSIVE MgrEmitUnsubscribe(_, _, _, _)
MgrEmitUnsubscribe(d, ls, s, now) ==
  IF ls = <<>> \/ d.thrown # "none" THEN d
  ELSE MgrEmitUnsubscribe(UnsubscribeListener(d, Head(ls), s, now), Tail(ls), s, now)

\* the server's confirmation reaches the manager, which stops routing s
NotifyFn(d, s, now) ==
  MgrEmitUnsubscribe([d EXCEPT !.subscribed = @ \ {s}, !.unsubscribing = @ \ {s}],
                     d.mgrListeners, s, now)

\* ---------------------------------------------------------------- actions

\* the user calls load(url) or load(url, fn)
Load(u, now, withFn) ==
  LET d == LoadFn(Doc, u, now, withFn)
  IN /\ WithinBounds(d)
     /\ Commit(d, [op |-> "load", url |-> u, now |-> now])

\* the transport delivers the response to request r
Response(r, ok, text) ==
  /\ r \in inflight
  /\ Commit(ResponseFn(Doc, r, ok, text),
            [op |-> "response", req |-> r.id, ok |-> ok,
             superseded |-> r.id \in cancelled])

\* the manager delivers a snapshot
Payload(obj) ==
  /\ subscribed # {}
  /\ Commit(PayloadFn(Doc, obj), [op |-> "payload", obj |-> obj])

\* the manager delivers an operation
Op(upd) ==
  /\ subscribed # {}
  /\ Commit(OpFn(Doc, <<upd>>), [op |-> "op", upd |-> upd])

\* the user calls ready(fn)
Ready ==
  LET d == ReadyFn(Doc, "user", "")
  IN /\ WithinBounds(d)
     /\ Commit(d, [op |-> "ready"])

\* the user calls get(key, fn)
Get(key) ==
  LET d == GetFn(Doc, key)
  IN /\ WithinBounds(d)
     /\ Commit(d, [op |-> "get", key |-> key])

\* the user calls destroy() or destroy(fn)
Destroy(fn) ==
  LET d == DestroyFn(Doc, fn)
  IN /\ WithinBounds(d)
     /\ Commit(d, [op |-> "destroy", fn |-> fn])

\* the manager emits 'unsubscribe' for s: the confirmation of an
\* unsubscription it asked for, or one for a sid of another document
Notify(s, now) ==
  LET d == NotifyFn(Doc, s, now)
  IN /\ s \in unsubscribing \/ s \notin subscribed
     /\ WithinBounds(d)
     /\ Commit(d, [op |-> "notify", sid |-> s])

Next ==
  \/ \E u \in URLs, now \in Times, withFn \in BOOLEAN : Load(u, now, withFn)
  \/ \E r \in inflight, ok \in BOOLEAN, text \in OwnSIDs : Response(r, ok, text)
  \/ \E obj \in PayloadObjs : Payload(obj)
  \/ \E upd \in Updates : Op(upd)
  \/ Ready
  \/ \E key \in Keys : Get(key)
  \/ \E fn \in DestroyFns : Destroy(fn)
  \/ \E s \in SIDs, now \in Times : Notify(s, now)

Spec == Init /\ [][Next]_vars

\* ------------------------------------------------------- the namespacer

\* the user calls on(key, op, fn) or on(key, fn)
On(key, arg) ==
  LET d == OnFn(Doc, key, arg)
  IN /\ WithinBounds(d)
     /\ Commit(d, [op |-> "on"])

\* the user calls once(key, op, fn) or once(key, fn)
Once(key, arg) ==
  LET d == OnceFn(Doc, key, arg)
  IN /\ WithinBounds(d)
     /\ Commit(d, [op |-> "once"])

\* the user calls off(key, op, fn) or off(key, fn), fn a callback registered
\* before
Off(key, arg, fn) ==
  /\ fn \in 1..nreg
  /\ Commit(OffFn(Doc, key, arg, fn), [op |-> "off"])

\* the user calls $readyState(): line 94
ReadyState ==
  Commit(Doc, [op |-> "readyState", ret |-> Doc.readyState])

\* snapshots and operations on the field "a"
OnPayloadObjs == {obj \in PayloadObjs : DOMAIN obj \subseteq {"a"}}
OnUpdates == {upd \in Updates : upd.key = "a" /\ upd.op = "$set"}

\* a document whose user registers and removes listeners while it goes
\* through its lifecycle and receives snapshots and operations
NextOn ==
  \/ \E in \in OnInputs : On(in.key, in.arg)
  \/ \E in \in OnceInputs : Once(in.key, in.arg)
  \/ \E in \in OffInputs, fn \in 1..MaxCalls : Off(in.key, in.arg, fn)
  \/ ReadyState
  \/ \E u \in URLs, now \in Times : Load(u, now, FALSE)
  \/ \E r \in inflight, ok \in BOOLEAN, text \in OwnSIDs : Response(r, ok, text)
  \/ \E obj \in OnPayloadObjs : Payload(obj)
  \/ \E upd \in OnUpdates : Op(upd)
  \/ Destroy("none")
  \/ \E s \in OwnSIDs, now \in Times : Notify(s, now)

SpecOn == Init /\ [][NextOn]_vars

\* ---------------------------------------------------------- the fetch url

\* a new document, in node or in a browser
InitUrl ==
  /\ readyState = "unloaded"
  /\ sid = Undef
  /\ url = NoUrl
  /\ xhr = NoXhr
  /\ fields = [k \in Keys |-> Undef]
  /\ listeners = <<>>
  /\ timers = {}
  /\ inNode \in BOOLEAN
  /\ inflight = {}
  /\ subscribed = {}
  /\ unsubscribing = {}
  /\ mgrListeners = <<>>
  /\ nreq = 0
  /\ nreg = 0
  /\ ndestroy = 0
  /\ ncalls = 0
  /\ called = {}
  /\ cbCalled = {}
  /\ cancelled = {}
  /\ emitted = <<>>
  /\ invoked = <<>>
  /\ mgrCalls = <<>>
  /\ thrown = "none"
  /\ last = [op |-> "new"]

\* a document loaded from several urls in turn, destroyed in between
NextUrl ==
  \/ \E u \in QueryURLs, now \in Clock : Load(u, now, FALSE)
  \/ \E r \in inflight, ok \in BOOLEAN, text \in OwnSIDs : Response(r, ok, text)
  \/ Payload([k \in {"a"} |-> "1"])
  \/ Destroy("none")
  \/ \E s \in OwnSIDs, now \in Clock : Notify(s, now)

SpecUrl == InitUrl /\ [][NextUrl]_vars

\* ------------------------------------------------- the operation translator

\* the manager delivers an operation with modifier mod
Batch(mod) ==
  LET q == Query(Doc, mod)
  IN /\ subscribed # {}
     /\ q.ok
     /\ Commit(OpFn(Doc, mod), [op |-> "batch", log |-> q.log])

\* a document that is loaded once and then fed snapshots and operations, one
\* operation per snapshot: what $op does depends on the fields it finds and
\* on the modifier only, and the snapshots range over the fields. A handler
\* that never returns keeps the event loop, so nothing follows it.
Alive == thrown # "hang"

NextOps ==
  \/ Alive /\ \E u \in URLs, now \in Times, withFn \in BOOLEAN : Load(u, now, withFn)
  \/ Alive /\ \E r \in inflight, ok \in BOOLEAN, text \in OwnSIDs : Response(r, ok, text)
  \/ Alive /\ \E obj \in ArraySnapshots : Payload(obj)
  \/ Alive /\ last.op # "batch" /\ \E mod \in Modifiers : Batch(mod)

SpecOps == Init /\ [][NextOps]_vars

\* ----------------------------------------------------------------- claims

\* what a step leaves alone when it changes nothing of the document, the
\* transport or the manager
DocUnchanged ==
  UNCHANGED <<readyState, sid, url, xhr, fields, listeners, timers, inflight,
              subscribed, unsubscribing, mgrListeners, nreq>>

\* the states a step's $readyState(s) calls set, in order: each call emits
\* '$state' with s
StatesSet(em) ==
  LET ix == SelectSeq([i \in 1..Len(em) |-> i], LAMBDA i : em[i].ev = "$state")
  IN [j \in 1..Len(ix) |-> em[ix[j]].arg]

CycleEdges ==
  {<<"unloaded", "loading">>, <<"loading", "loaded">>,
   <<"loaded", "unloading">>, <<"unloading", "unloaded">>}

\* C1: every change of readyState follows one edge of the cycle
\* unloaded -> loading -> loaded -> unloading -> unloaded.
C1_OnlyCycleEdges ==
  [][LET path == <<readyState>> \o StatesSet(emitted')
     IN \A i \in 1..(Len(path) - 1) :
          path[i + 1] # path[i] => <<path[i], path[i + 1]>> \in CycleEdges]_vars

\* C2: load called while the document is not unloaded, and destroy called
\* while it is unloaded or unloading, throw an Error and change nothing: no
\* state, sid, url or pending request changes, nothing is emitted, no fetch is
\* issued and the manager is not called.
C2_InvalidCallThrowsAndChangesNothing ==
  [][((last'.op = "load" /\ readyState # "unloaded")
        \/ (last'.op = "destroy" /\ readyState \in {"unloaded", "unloading"}))
       => /\ thrown' = "Error"
          /\ DocUnchanged
          /\ emitted' = <<>>
          /\ invoked' = <<>>
          /\ mgrCalls' = <<>>]_vars

\* C2's case: a load refused while the document is loaded
C2_Witness == last.op = "load" /\ thrown = "Error" /\ readyState = "loaded"

\* C3: destroy called while loading returns normally, clears the pending
\* request and leaves readyState at loading.
C3_DestroyWhileLoadingReturns ==
  [][(last'.op = "destroy" /\ readyState = "loading")
       => /\ thrown' = "none"
          /\ xhr' = NullXhr
          /\ readyState' = "loading"]_vars

\* C4: the response to a request during whose fetch destroy was called is
\* ignored: it assigns no sid and does not call manager.subscribe.
C4_SupersededResponseIgnored ==
  [][(last'.op = "response" /\ last'.superseded)
       => sid' = sid /\ subscribed' = subscribed /\ mgrCalls' = <<>>]_vars

\* C5: ready(fn), and so get(key, fn), called while the document is loaded
\* hands fn to the next turn of the event loop (setTimeout), so that it runs
\* without any further transition: it is not parked as a listener.
C5_ReadyWhileLoadedSchedules ==
  [][(last'.op \in {"ready", "get"} /\ readyState = "loaded")
       => timers' # timers /\ listeners' = listeners]_vars

\* the callbacks the step's emits invoked, and how often it invoked f
InvokedFns(inv, kinds) == {inv[i].fn : i \in {j \in 1..Len(inv) : inv[j].kind \in kinds}}
TimesInvoked(inv, kinds, f) ==
  Cardinality({i \in 1..Len(inv) : inv[i].kind \in kinds /\ inv[i].fn = f})

\* C6: a callback given to ready() (or to load()) while the document is not
\* loaded is invoked exactly once, by the next $payload (the next transition
\* to loaded), by no other step, and never again by a later one.
C6_ReadyCallbackOnce ==
  [][/\ \A i \in 1..Len(listeners) :
          LET l == listeners[i]
          IN (l.ev = "$state:loaded" /\ ~l.loaded)
               => IF last'.op = "payload"
                  THEN /\ TimesInvoked(invoked', {"user", "get"}, l.fn) = 1
                       /\ \A j \in 1..Len(listeners') : listeners'[j].fn # l.fn
                  ELSE /\ TimesInvoked(invoked', {"user", "get"}, l.fn) = 0
                       /\ \E j \in 1..Len(listeners') : listeners'[j] = l
     /\ \A f \in InvokedFns(invoked', {"user", "get"}) :
          /\ f \notin called
          /\ \E i \in 1..Len(listeners) : listeners[i].fn = f]_vars

\* C6's case: a $payload has invoked a callback that load(url, fn) or
\* ready(fn) registered while the document was not loaded
C6_Witness ==
  /\ last.op = "payload"
  /\ \E i \in 1..Len(invoked) : invoked[i].kind = "user"
  /\ readyState = "loaded"

\* C7: destroy called while loaded moves the document to unloading and calls
\* manager.unsubscribe(sid) once; the document stays unloading until the
\* manager emits 'unsubscribe' for its sid; an 'unsubscribe' for a sid no
\* listener waits for changes nothing; the one for its sid makes the document
\* unloaded, invokes each waiting callback once (and none that was invoked
\* before) and removes the listeners.
C7_DestroyUnsubscribes ==
  [][/\ (last'.op = "destroy" /\ readyState = "loaded")
          => /\ readyState' = "unloading"
             /\ mgrCalls' = <<[call |-> "unsubscribe", sid |-> sid]>>
     /\ (readyState = "unloading" /\ ~(last'.op = "notify" /\ last'.sid = sid))
          => readyState' = "unloading"
     /\ (last'.op = "notify"
           /\ \A i \in 1..Len(mgrListeners) : mgrListeners[i].sid # last'.sid)
          => /\ readyState' = readyState
             /\ mgrListeners' = mgrListeners
             /\ invoked' = <<>>
     /\ (last'.op = "notify" /\ readyState = "unloading" /\ last'.sid = sid)
          => /\ \E i \in 1..Len(emitted') :
                  emitted'[i] = [ev |-> "$state", arg |-> "unloaded"]
             /\ \A i \in 1..Len(mgrListeners') : mgrListeners'[i].sid # last'.sid
             /\ \A i \in 1..Len(mgrListeners) :
                  LET l == mgrListeners[i]
                  IN (l.sid = last'.sid /\ l.fn # "none")
                       => /\ TimesInvoked(invoked', {"destroy"}, l.id) = 1
                          /\ l.id \notin cbCalled]_vars

\* C8: the destroy callback runs after the document has become unloaded: it
\* sees readyState() = unloaded, and a load it makes does not throw.
C8_CallbackSeesUnloaded ==
  \A i \in 1..Len(invoked) :
     invoked[i].kind = "destroy" => invoked[i].saw = "unloaded" /\ thrown = "none"

\* C9: after $payload(obj) the document is loaded and get(k) = obj[k] for
\* every own key k of obj; the listeners the two notifications invoke run
\* with the document loaded, and a get(key, fn) callback among them is handed
\* the snapshot's value of its key.
C9_PayloadWritesThenAnnounces ==
  last.op = "payload"
    => /\ readyState = "loaded"
       /\ \A k \in DOMAIN last.obj : fields[k] = last.obj[k]
       /\ emitted = <<[ev |-> "$state", arg |-> "loaded"],
                      [ev |-> "$state:loaded", arg |-> Undef]>>
       /\ \A i \in 1..Len(invoked) :
            /\ invoked[i].saw = "loaded"
            /\ (invoked[i].kind = "get" /\ invoked[i].key \in DOMAIN last.obj)
                 => invoked[i].got = last.obj[invoked[i].key]

\* C9's case: a snapshot that carries the key a waiting get(key, fn) asked for
C9_Witness ==
  /\ last.op = "payload"
  /\ \E i \in 1..Len(invoked) :
       invoked[i].kind = "get" /\ invoked[i].key \in DOMAIN last.obj

\* C10: get(k) is the value of k in the last snapshot with the operations
\* received since applied: right after a snapshot, a key the snapshot does
\* not carry is not readable; right after an operation, its key reads as the
\* operation left it.
C10_GetReflectsLastSnapshot ==
  /\ last.op = "payload"
       => \A k \in Keys :
            fields[k] = IF k \in DOMAIN last.obj THEN last.obj[k] ELSE Undef
  /\ last.op = "op"
       => fields[last.upd.key] =
            IF last.upd.op = "$set" THEN last.upd.value ELSE Undef

\* the values a step's notifications on ev carried, in order
Carried(em, ev) ==
  LET ix == SelectSeq([i \in 1..Len(em) |-> i], LAMBDA i : em[i].ev = ev)
  IN [j \in 1..Len(ix) |-> em[ix[j]].arg]

\* the values the entries of log are to announce on key k as kind s ("$push"
\* or "$pull"): each element of an All entry, the value of a single entry
\* (a $pop is announced as a $pull)
RECURSIVE Expanded(_, _, _)
Expanded(log, k, s) ==
  IF log = <<>> THEN <<>>
  ELSE LET e == Head(log)
           part == IF e.key # k THEN <<>>
                   ELSE IF e.op = s \o "All" THEN e.value
                   ELSE IF e.op = s \/ (e.op = "$pop" /\ s = "$pull") THEN <<e.value>>
                   ELSE <<>>
       IN part \o Expanded(Tail(log), k, s)

\* C11: for a log with a $pushAll (resp. $pullAll) entry on key k, the
\* notifications $op emits on k$push (resp. k$pull) are exactly one per
\* element of the entry's value, carrying the elements in order (next to
\* those of the single entries on k), whatever the lengths of the value and
\* of the log.
C11_AllExpandsPerElement ==
  last.op = "batch"
    => \A k \in Keys, s \in {"$push", "$pull"} :
         (\E i \in 1..Len(last.log) :
             last.log[i].key = k /\ last.log[i].op = s \o "All")
           => Carried(emitted, k \o s) = Expanded(last.log, k, s)

\* the loop reaches entry j of the log: no entry before it is an All entry
\* with elements, whose expansion never ends (C16)
Reached(log, j) ==
  \A m \in 1..(j - 1) : ~(IsAll(log[m].op) /\ log[m].value # <<>>)

Positions(em, ev, arg) == {p \in 1..Len(em) : em[p] = [ev |-> ev, arg |-> arg]}

CompositeKey(key, written) ==
  CASE written \in {"on:set", "on:$set"} -> key \o "$set"
    [] written = "on:$$set" -> key \o "$$set"
    [] OTHER -> key

\* the callbacks among ls registered for composite key ck, in order
RegisteredFor(ls, ck) ==
  LET hit == SelectSeq(ls, LAMBDA l : CompositeKey(l.key, l.kind) = ck)
  IN [i \in 1..Len(hit) |-> hit[i].fn]

\* the callbacks the dispatches em are to invoke, in order, ls being the
\* listeners before the first of them: a once() listener goes as it is called
RECURSIVE Dispatched(_, _)
Dispatched(ls, em) ==
  IF em = <<>> THEN <<>>
  ELSE RegisteredFor(ls, Head(em).ev)
         \o Dispatched(SelectSeq(ls, LAMBDA l :
                          ~(l.once /\ CompositeKey(l.key, l.kind) = Head(em).ev)),
                       Tail(em))

QueryInputs == [key : {"a"}, arg : OpArgs \cup {NoArg}]
                 \cup [key : StateKeys, arg : {NoArg}]

\* in every state: each listener sits under the composite key of its
\* registration, and listeners, hasListeners and off, with any spelling of
\* the kind, address the callbacks registered for that composite key
C14Addressing ==
  /\ \A i \in 1..Len(listeners) :
       listeners[i].ev = CompositeKey(listeners[i].key, listeners[i].kind)
  /\ \A q \in QueryInputs :
       LET regd == RegisteredFor(listeners, CompositeKey(q.key, AsWritten(q.arg)))
       IN /\ ListenersFn(Doc, q.key, q.arg) = regd
          /\ HasListenersFn(Doc, q.key, q.arg) <=> regd # <<>>
  /\ \A q \in OffInputs, f \in 1..nreg :
       OffFn(Doc, q.key, q.arg, f).listeners =
         SelectSeq(listeners, LAMBDA l :
           ~(l.fn = f /\ CompositeKey(l.key, l.kind) = CompositeKey(q.key, AsWritten(q.arg))))

\* in every step: the callbacks invoked are those registered for the
\* composite keys dispatched to, all of them and no other, in registration
\* order
C14Dispatch ==
  [i \in 1..Len(invoked') |-> invoked'[i].fn] = Dispatched(listeners, emitted')

\* C14: a listener registered with on(key, op, fn) is invoked exactly by the
\* dispatches to key + '$' + op with one leading '$' dropped from op, so that
\* 'set' and '$set' name one composite key; a dispatch invokes all and only
\* the listeners of its composite key, in registration order; off, listeners
\* and hasListeners with either spelling address that same set.
C14_CompositeKeyListeners == []C14Addressing /\ [][C14Dispatch]_vars

\* C14's case: one operation's dispatch to a$set has invoked a callback
\* registered with '$set' and then one registered with 'set'
C14_Witness ==
  /\ last.op = "op"
  /\ \E i, j \in 1..Len(invoked) :
       /\ i < j
       /\ invoked[i].kind = "on:$set"
       /\ invoked[j].kind = "on:set"

\* C15: the url load hands to the transport is the resource url followed by
\* '&my=1&t=<now>' when the resource url has a query string (a '?') and by
\* '?my=1&t=<now>' when it has none; url() returns the resource url, which
\* does not carry the suffix.
C15_FetchUrlSuffix ==
  (last.op = "load" /\ thrown = "none")
    => /\ \E r \in inflight :
            /\ Request(r.id) = xhr
            /\ Concat(r.url) =
                 Concat(url) \o (IF \E i \in 1..Len(url) : url[i] = "?" THEN "&" ELSE "?")
                             \o "my=1&t=" \o last.now
       /\ \A i \in 1..Len(url) : url[i] # "my=1&t="
       /\ Len(url) >= Len(last.url)
       /\ SubSeq(url, Len(url) - Len(last.url) + 1, Len(url)) = last.url

\* the plain notifications among em: those on a key itself
Plain(em) == SelectSeq(em, LAMBDA e : e.ev \in Keys)

\* C16: $op returns for every log, also for one with a $pushAll or $pullAll
\* entry whose value has elements and another length than the log: the
\* expansion ends, and every entry of the log, the later ones included, has
\* been processed (each has had its plain notification) when $op returns.
C16_OpReturns ==
  last.op = "batch"
    => /\ thrown # "hang"
       /\ Len(Plain(emitted)) = Len(last.log)

\* C17: the notifications of a batch come entry by entry, in log order: for
\* every entry, of every kind, its kind's notifications and then exactly one
\* plain notification on its key carrying what get(key) returns, before
\* anything of the next entry; for a kind other than $pop, $unset and the All
\* kinds, the kind's part is one notification on key + op carrying the
\* entry's value.
C17_PlainAfterEachEntry ==
  last.op = "batch"
    => LET pos == SelectSeq([p \in 1..Len(emitted) |-> p],
                            LAMBDA p : emitted[p].ev \in Keys)
       IN /\ Len(pos) = Len(last.log)
          /\ pos[Len(pos)] = Len(emitted)
          /\ \A j \in 1..Len(last.log) :
               LET e == last.log[j]
                   from == IF j = 1 THEN 1 ELSE pos[j - 1] + 1
               IN /\ emitted[pos[j]] = [ev |-> e.key, arg |-> fields[e.key]]
                  /\ (e.op \notin {"$pop", "$unset"} /\ ~IsAll(e.op))
                       => SubSeq(emitted, from, pos[j] - 1)
                            = <<[ev |-> e.key \o e.op, arg |-> e.value]>>

\* C18: sid is assigned only by the ok response to the fetch of the running
\* load cycle (the last request issued, once: a request is answered once),
\* and it is cleared when the document returns to unloaded: whenever
\* readyState is unloaded, sid() is unset.
C18_SidClearedWhenUnloaded ==
  [][/\ (sid' # sid \/ \E i \in 1..Len(mgrCalls') : mgrCalls'[i].call = "subscribe")
          => /\ last'.op = "response"
             /\ last'.ok
             /\ last'.req = nreq
             /\ Request(last'.req) = xhr
     /\ readyState' = "unloaded" => sid' = Undef]_vars

\* C19: a response that is not ok to the current fetch leaves the load
\* stalled: readyState stays as it is (a loading document stays loading),
\* sid is not assigned, manager.subscribe is not called, nothing is emitted
\* and no callback is invoked, and no fetch is issued again.
C19_FailedFetchStalls ==
  [][(last'.op = "response" /\ ~last'.ok /\ Request(last'.req) = xhr)
       => /\ readyState' = readyState
          /\ sid' = sid
          /\ subscribed' = subscribed
          /\ mgrCalls' = <<>>
          /\ emitted' = <<>>
          /\ invoked' = <<>>
          /\ thrown' = "none"
          /\ nreq' = nreq
          /\ xhr' = xhr
          /\ inflight' = {r \in inflight : r.id # last'.req}]_vars

\* C19's case: the fetch of a loading document has been answered not ok
C19_Witness ==
  /\ last.op = "response"
  /\ ~last.ok
  /\ Request(last.req) = xhr
  /\ readyState = "loading"
  /\ sid = Undef
  /\ inflight = {}

\* the lifecycle notifications among em
StateEvents == {"$state"} \cup {"$state:" \o s : s \in States}
OfState(em) == SelectSeq(em, LAMBDA e : e.ev \in StateEvents)

\* C20: every change of state comes from $readyState(s), which overwrites
\* the state and then emits exactly '$state' carrying s and '$state:<s>', in
\* this order, so that a listener of either finds readyState() = s; and
\* $readyState() returns the state and emits and changes nothing.
C20_StateSetThenAnnounced ==
  [][LET se == OfState(emitted')
     IN /\ Len(se) % 2 = 0
        /\ \A k \in 1..(Len(se) \div 2) :
             /\ se[2 * k - 1].ev = "$state"
             /\ se[2 * k - 1].arg \in States
             /\ se[2 * k] = [ev |-> "$state:" \o se[2 * k - 1].arg, arg |-> Undef]
        /\ readyState' = IF se = <<>> THEN readyState ELSE se[Len(se) - 1].arg
        /\ \A i \in 1..Len(invoked') :
             /\ invoked'[i].key = "$state" => invoked'[i].saw = invoked'[i].got
             /\ \A s \in States :
                  invoked'[i].key = "$state:" \o s => invoked'[i].saw = s
        /\ last'.op = "readyState"
             => /\ last'.ret = readyState
                /\ emitted' = <<>>
                /\ invoked' = <<>>
                /\ DocUnchanged]_vars

\* C20's case: a load has moved the document to loading and has invoked a
\* listener of '$state' and then one of '$state:loading'
C20_Witness ==
  /\ last.op = "load"
  /\ readyState = "loading"
  /\ \E i, j \in 1..Len(invoked) :
       /\ i < j
       /\ invoked[i].key = "$state"
       /\ invoked[j].key = "$state:loading"

====
